---- MODULE Spec2Model ----
(***************************************************************************)
(* Model of the dual-sink logger of backend/src/util/logger.rs: init()     *)
(* seeds LINE_COUNT from the log file and writes the session header; the   *)
(* format closure renders a record, then appends it to the log file and,   *)
(* past MAX_LINES_THRESHOLD, rewrites the file, all under one Mutex.       *)
(*                                                                         *)
(* The log file is a sequence of lines; a line is the sequence of chunks   *)
(* written into it, a chunk is <<source, number, part>>.  fileTail tells   *)
(* that the last line has no line terminator yet.  Files found at startup  *)
(* are the logger's own output, so they end with a line terminator.        *)
(***************************************************************************)
EXTENDS Integers, Sequences, FiniteSets, TLC

\* ------------------------------------------------------------------ bounds
NumThreads == 2
MaxRecords == 4
MaxInitLines == 3
MaxFaults == 1
\* the racing workload: few records, targets of several lengths
RaceRecords == 2
RaceTargetLen == 2
\* the sequential workload: one caller, more records and target lengths
SeqRecords == 4
SeqTargetLen == 4
\* the failing-disk workload: one caller, several I/O failures
FaultyRecords == 3
FaultyFaults == 2
\* the workload whose I/O never fails
LiveRecords == 3

\* MAX_LINES is 8192 in the source; the model keeps the source's relation
\* between the two retention parameters at a size TLC can enumerate.
MAX_LINES == 2
MAX_LINES_THRESHOLD == MAX_LINES + MAX_LINES \div 2

Threads == 1..NumThreads

\* target.len() of the record log::error! emits from the logger's own module
LoggerTargetLen == SeqTargetLen + 1

VARIABLES
    workload,           \* the callers: who emits, how many records, which targets
    state,              \* "Uninitialized" | "Ready" | "InitPanicked"
    errorFilter,        \* what the RUST_LOG filter does with the logger's own
                        \* error records: "pass" | "drop", "unread" until consulted
    fileExists, file, fileTail,
    seeded,             \* what init's read of the log file gave:
                        \* "none" | "counted" | "absent" | "unreadable"
    LINE_COUNT,
    MAX_MODULE_WIDTH,
    lockHolder,         \* 0 or the thread owning the Mutex
    poisoned,
    faults,             \* I/O operations that have failed so far
    console,            \* lines printed to stderr, in order
    pc, depth, emitted,
    error_site,         \* the operation whose failure the closure is reporting
    failed,             \* an I/O operation of the current call has failed
    target, max_width, width,
    line_count, lines, rotations,
    since_reset         \* calls that passed the threshold check without rotating
                        \* since LINE_COUNT was last reset; -1 before any reset

vars == <<workload, state, errorFilter, fileExists, file, fileTail, seeded,
          LINE_COUNT, MAX_MODULE_WIDTH, lockHolder, poisoned, faults, console,
          pc, depth, emitted, error_site, failed, target, max_width, width,
          line_count, lines, rotations, since_reset>>

\* ------------------------------------------------------- lines of the file
OldLine(i) == << <<0, i, 0>> >>
HeaderLine == << <<0, 0, 0>> >>
HeadChunk(t, k) == <<t, k, 1>>
TailChunk(t, k) == <<t, k, 2>>
RecordLine(t, k) == << HeadChunk(t, k), TailChunk(t, k) >>

OldFile(n) == [i \in 1..n |-> OldLine(i)]

\* a write to a file opened without .append(true): it starts at offset 0
WriteChunk_truncating(f, tl, chunk) ==
    IF tl /\ Len(f) > 0
    THEN [f EXCEPT ![Len(f)] = Append(@, chunk)]
    ELSE << <<chunk>> >>

\* one write(2) of a chunk at the end of the file (O_APPEND)
WriteChunk(f, tl, chunk) ==
    IF tl /\ Len(f) > 0
    THEN [f EXCEPT ![Len(f)] = Append(@, chunk)]
    ELSE Append(f, <<chunk>>)

\* str::lines(): the lines without their terminators; a last line needs none
StrLines(f) == f

\* s.lines().count()
CountLines(f) == Len(StrLines(f))

\* Iterator::skip(n)
Skip(s, n) == IF n >= Len(s) THEN <<>> ELSE SubSeq(s, n + 1, Len(s))

\* ------------------------------------------------------------- alignment
max_target_width_stores(mw, len) == mw < len

\* the width of the record's own target, whatever was seen before
max_target_width_own(mw, len) == len

max_target_width_result(mw, len) == IF mw < len THEN len ELSE mw

\* Padded::fmt, "{: <width$}": columns taken by a value of length len
PaddedColumns(len, w) == IF len < w THEN w ELSE len

\* ------------------------------------------------------------- retention
\* the comparison written with <= : rotation starts one record late
BelowThreshold_le(lc) == lc <= MAX_LINES_THRESHOLD

BelowThreshold(lc) == lc < MAX_LINES_THRESHOLD

SkipCount(lc) == lc - MAX_LINES + 1

\* lines.skip(..).chain(Some("")).collect().join("\n"): every kept line is
\* followed by a line terminator
Retained(ls, lc) == Skip(ls, SkipCount(lc))

\* ------------------------------------------------------------------ Init
Fresh ==
    /\ state = "Uninitialized"
    /\ errorFilter = "unread"
    /\ fileTail = FALSE
    /\ seeded = "none"
    /\ LINE_COUNT = 0
    /\ MAX_MODULE_WIDTH = 0
    /\ lockHolder = 0
    /\ poisoned = FALSE
    /\ faults = 0
    /\ console = <<>>
    /\ pc = [t \in Threads |-> "idle"]
    /\ depth = [t \in Threads |-> 0]
    /\ emitted = [t \in Threads |-> 0]
    /\ error_site = [t \in Threads |-> "none"]
    /\ failed = [t \in Threads |-> FALSE]
    /\ target = [t \in Threads |-> 0]
    /\ max_width = [t \in Threads |-> 0]
    /\ width = [t \in Threads |-> 0]
    /\ line_count = [t \in Threads |-> 0]
    /\ lines = [t \in Threads |-> <<>>]
    /\ rotations = [t \in Threads |-> 0]
    /\ since_reset = -1

\* every thread logs, all with targets of one length; the log file is
\* absent or holds up to MaxInitLines lines
Init ==
    /\ workload = [threads |-> Threads, records |-> MaxRecords,
                   targets |-> {1}, faults |-> MaxFaults]
    /\ fileExists \in BOOLEAN
    /\ \E n \in 0..MaxInitLines :
          file = IF fileExists THEN OldFile(n) ELSE <<>>
    /\ Fresh

\* every thread logs, with targets of different lengths; the log file is
\* absent or at the point where the next record rotates it
InitRace ==
    /\ workload = [threads |-> Threads, records |-> RaceRecords,
                   targets |-> 1..RaceTargetLen, faults |-> MaxFaults]
    /\ fileExists \in BOOLEAN
    /\ file = IF fileExists THEN OldFile(MAX_LINES_THRESHOLD - 1) ELSE <<>>
    /\ Fresh

\* one thread logs, as main() does before the server starts
InitSeq ==
    /\ workload = [threads |-> {1}, records |-> SeqRecords,
                   targets |-> 1..SeqTargetLen, faults |-> MaxFaults]
    /\ fileExists \in BOOLEAN
    /\ file = <<>>
    /\ Fresh

\* one thread logs to an existing file on a disk whose operations fail more
\* than once
InitFaulty ==
    /\ workload = [threads |-> {1}, records |-> FaultyRecords,
                   targets |-> {1}, faults |-> FaultyFaults]
    /\ fileExists = TRUE
    /\ \E n \in 0..MaxInitLines : file = OldFile(n)
    /\ Fresh

\* every thread logs and no I/O operation fails
InitLive ==
    /\ workload = [threads |-> Threads, records |-> LiveRecords,
                   targets |-> {1}, faults |-> 0]
    /\ fileExists \in BOOLEAN
    /\ \E n \in 0..MaxInitLines :
          file = IF fileExists THEN OldFile(n) ELSE <<>>
    /\ Fresh

threadVars == <<pc, depth, emitted, error_site, failed, target, max_width, width,
                line_count, lines, rotations>>

\* fixed once init() has run
envVars == <<workload, state, seeded>>

diskVars == <<fileExists, file, fileTail>>

\* ------------------------------------------------------------------ init()
\* fs::read_to_string(..).map(|s| s.lines().count()): the value stored, or
\* the counter as it was when the read fails
SeedCount(exists, readOk, f, old) ==
    IF exists /\ readOk THEN CountLines(f) + 1 ELSE old

\* an init() that goes on without the file when it cannot be opened
InitOutcome_degraded(openOk) == "Ready"

\* the match on the OpenOptions result: the file, or panic!(..) before the
\* logger is built
InitOutcome(openOk) == IF openOk THEN "Ready" ELSE "InitPanicked"

init ==
    /\ state = "Uninitialized"
    /\ \E readOk, openOk, headerOk \in BOOLEAN :
        LET nfail  == (IF fileExists /\ ~readOk THEN 1 ELSE 0)
                      + (IF ~openOk THEN 1 ELSE 0)
                      + (IF openOk /\ ~headerOk THEN 1 ELSE 0)
        IN  /\ (~fileExists) => readOk
            /\ (~openOk) => headerOk
            /\ faults + nfail <= workload.faults
            /\ faults' = faults + nfail
            /\ LINE_COUNT' = SeedCount(fileExists, readOk, file, LINE_COUNT)
            /\ seeded' = IF ~fileExists THEN "absent"
                         ELSE IF readOk THEN "counted" ELSE "unreadable"
            /\ state' = InitOutcome(openOk)
            /\ IF openOk
               THEN /\ fileExists' = TRUE
                    /\ file' = IF headerOk
                               THEN WriteChunk(file, fileTail, HeaderLine[1])
                               ELSE file
                    /\ fileTail' = FALSE
               ELSE UNCHANGED <<fileExists, file, fileTail>>
    /\ UNCHANGED <<workload, errorFilter, MAX_MODULE_WIDTH, lockHolder,
                   poisoned, console, threadVars, since_reset>>


\* ------------------------------------------------- the format closure
\* a lock that stays taken when the call that took it returns
Released_leak(t) == lockHolder

\* the MutexGuard _lock goes out of scope
Released(t) == IF lockHolder = t THEN 0 ELSE lockHolder

\* The closure returns: the guard _lock (if held) is dropped, and env_logger
\* prints the buffer the closure filled to stderr.
Return(t) ==
    /\ pc' = [pc EXCEPT ![t] = "idle"]
    /\ lockHolder' = Released(t)
    /\ console' = Append(console,
                         [thread |-> t, k |-> emitted[t], target |-> target[t],
                          columns |-> PaddedColumns(target[t], width[t])])
    /\ lines' = [lines EXCEPT ![t] = <<>>]
    /\ target' = [target EXCEPT ![t] = 0]
    /\ max_width' = [max_width EXCEPT ![t] = 0]
    /\ width' = [width EXCEPT ![t] = 0]

\* log::error!(..) inside the closure, followed by the code at `next`: the
\* record goes to the installed logger, which runs the format closure again
\* on the same thread (env_logger gives a re-entrant call a fresh buffer).
\* When the filter drops the record, the closure goes on.
LogErrorThen(t, site, next) ==
    \E verdict \in (IF errorFilter = "unread" THEN {"pass", "drop"}
                                              ELSE {errorFilter}) :
        /\ errorFilter' = verdict
        /\ error_site' = [error_site EXCEPT ![t] = site]
        /\ IF verdict = "pass"
           THEN /\ pc' = [pc EXCEPT ![t] = "nested"]
                /\ UNCHANGED <<lockHolder, console, lines, target, max_width, width>>
           ELSE IF next = "return"
                THEN Return(t)
                ELSE /\ pc' = [pc EXCEPT ![t] = next]
                     /\ UNCHANGED <<lockHolder, console, lines, target,
                                    max_width, width>>

\* records handed to the logger so far, by all threads
RECURSIVE SumTo(_, _)
SumTo(f, n) == IF n = 0 THEN 0 ELSE f[n] + SumTo(f, n - 1)

Emitted == SumTo(emitted, NumThreads)

\* record.target(); MAX_MODULE_WIDTH.load(Relaxed).  A caller whose earlier
\* call panicked may log again.
emit_load(t) ==
    /\ state = "Ready"
    /\ t \in workload.threads
    /\ pc[t] \in {"idle", "panicked"}
    /\ Emitted < workload.records
    /\ \E len \in workload.targets : target' = [target EXCEPT ![t] = len]
    /\ depth' = [depth EXCEPT ![t] = 0]
    /\ error_site' = [error_site EXCEPT ![t] = "none"]
    /\ failed' = [failed EXCEPT ![t] = FALSE]
    /\ max_width' = [max_width EXCEPT ![t] = MAX_MODULE_WIDTH]
    /\ emitted' = [emitted EXCEPT ![t] = @ + 1]
    /\ rotations' = [rotations EXCEPT ![t] = 0]
    /\ pc' = [pc EXCEPT ![t] = "width"]
    /\ UNCHANGED <<envVars, since_reset, diskVars, errorFilter, LINE_COUNT, MAX_MODULE_WIDTH,
                   lockHolder, poisoned, faults, console,
                   width, line_count, lines>>

\* the nested call of the closure for the logger's own error record
nested_load(t) ==
    /\ pc[t] = "nested"
    /\ depth' = [depth EXCEPT ![t] = @ + 1]
    /\ target' = [target EXCEPT ![t] = LoggerTargetLen]
    /\ max_width' = [max_width EXCEPT ![t] = MAX_MODULE_WIDTH]
    /\ pc' = [pc EXCEPT ![t] = "width"]
    /\ UNCHANGED <<envVars, since_reset, diskVars, errorFilter, LINE_COUNT, MAX_MODULE_WIDTH,
                   lockHolder, poisoned, faults, console,
                   emitted, error_site, failed, width, line_count, lines, rotations>>

\* the rest of max_target_width, and writeln!(buf, ..)
emit_width(t) ==
    /\ pc[t] = "width"
    /\ MAX_MODULE_WIDTH' =
          IF max_target_width_stores(max_width[t], target[t])
          THEN target[t] ELSE MAX_MODULE_WIDTH
    /\ width' = [width EXCEPT ![t] = max_target_width_result(max_width[t], target[t])]
    /\ pc' = [pc EXCEPT ![t] = "lock"]
    /\ UNCHANGED <<envVars, since_reset, diskVars, errorFilter, LINE_COUNT,
                   lockHolder, poisoned, faults, console,
                   depth, emitted, error_site, failed, target, max_width,
                   line_count, lines, rotations>>

\* a lock that lets a second thread in
MutexFree_always == TRUE

\* Mutex::lock blocks while a thread owns the mutex
MutexFree == lockHolder = 0

\* lock.lock().unwrap() on a healthy mutex
emit_lock(t) ==
    /\ pc[t] = "lock"
    /\ lockHolder # t
    /\ MutexFree
    /\ ~poisoned
    /\ lockHolder' = t
    /\ pc' = [pc EXCEPT ![t] = "open"]
    /\ UNCHANGED <<envVars, since_reset, diskVars, errorFilter, LINE_COUNT, MAX_MODULE_WIDTH,
                   poisoned, faults, console,
                   depth, emitted, error_site, failed, target, max_width, width,
                   line_count, lines, rotations>>

\* lock.lock() returns Err(PoisonError) once a holder has panicked; unwrap()
\* panics and the guard inside the error is dropped
emit_lock_poisoned(t) ==
    /\ pc[t] = "lock"
    /\ lockHolder # t
    /\ MutexFree
    /\ poisoned
    /\ pc' = [pc EXCEPT ![t] = "panicked"]
    /\ UNCHANGED <<envVars, since_reset, diskVars, errorFilter, LINE_COUNT, MAX_MODULE_WIDTH,
                   lockHolder, poisoned, faults, console,
                   depth, emitted, error_site, failed, target, max_width, width,
                   line_count, lines, rotations>>

\* lock.lock() by the thread that already owns the mutex: std leaves it
\* unspecified; the call never returns, it deadlocks or panics.  A panic
\* unwinds through the outer closure, whose guard poisons the mutex.
emit_relock(t) ==
    /\ pc[t] = "lock"
    /\ lockHolder = t
    /\ \/ /\ pc' = [pc EXCEPT ![t] = "deadlocked"]
          /\ UNCHANGED <<lockHolder, poisoned>>
       \/ /\ pc' = [pc EXCEPT ![t] = "panicked"]
          /\ lockHolder' = 0
          /\ poisoned' = TRUE
    /\ UNCHANGED <<envVars, since_reset, diskVars, errorFilter, LINE_COUNT, MAX_MODULE_WIDTH,
                   faults, console,
                   depth, emitted, error_site, failed, target, max_width, width,
                   line_count, lines, rotations>>

\* OpenOptions::new().create(true).append(true).open(&log_file)
emit_open(t) ==
    /\ pc[t] = "open"
    /\ fileExists' = TRUE
    /\ pc' = [pc EXCEPT ![t] = "append1"]
    /\ UNCHANGED <<envVars, since_reset, file, fileTail, errorFilter, LINE_COUNT,
                   MAX_MODULE_WIDTH, lockHolder, poisoned, faults, console,
                   depth, emitted, error_site, failed, target, max_width, width,
                   line_count, lines, rotations>>

emit_open_fail(t) ==
    /\ pc[t] = "open"
    /\ faults < workload.faults
    /\ faults' = faults + 1
    /\ failed' = [failed EXCEPT ![t] = TRUE]
    /\ LogErrorThen(t, "open", "return")
    /\ UNCHANGED <<envVars, since_reset, diskVars, LINE_COUNT, MAX_MODULE_WIDTH, poisoned,
                   depth, emitted, line_count, rotations>>

\* writeln!(file, ..): write_fmt hands the pieces of the line to the file
\* one write at a time and stops at the first failure; the result is dropped
emit_append1(t) ==
    /\ pc[t] = "append1"
    /\ file' = WriteChunk(file, fileTail, HeadChunk(t, emitted[t]))
    /\ fileTail' = TRUE
    /\ pc' = [pc EXCEPT ![t] = "append2"]
    /\ UNCHANGED <<envVars, since_reset, fileExists, errorFilter, LINE_COUNT,
                   MAX_MODULE_WIDTH, lockHolder, poisoned, faults, console,
                   depth, emitted, error_site, failed, target, max_width, width,
                   line_count, lines, rotations>>

emit_append2(t) ==
    /\ pc[t] = "append2"
    /\ file' = WriteChunk(file, fileTail, TailChunk(t, emitted[t]))
    /\ fileTail' = FALSE
    /\ pc' = [pc EXCEPT ![t] = "count"]
    /\ UNCHANGED <<envVars, since_reset, fileExists, errorFilter, LINE_COUNT,
                   MAX_MODULE_WIDTH, lockHolder, poisoned, faults, console,
                   depth, emitted, error_site, failed, target, max_width, width,
                   line_count, lines, rotations>>

emit_append_fail(t) ==
    /\ pc[t] \in {"append1", "append2"}
    /\ faults < workload.faults
    /\ faults' = faults + 1
    /\ failed' = [failed EXCEPT ![t] = TRUE]
    /\ pc' = [pc EXCEPT ![t] = "count"]
    /\ UNCHANGED <<envVars, since_reset, diskVars, errorFilter, LINE_COUNT,
                   MAX_MODULE_WIDTH, lockHolder, poisoned, console,
                   depth, emitted, error_site, target, max_width, width,
                   line_count, lines, rotations>>

\* a counter that is read where it should be incremented
fetch_add_none(c, n) == c

\* the value AtomicUsize::fetch_add leaves in the counter
fetch_add(c, n) == c + n

\* LINE_COUNT.fetch_add(1, Relaxed) and the threshold check
emit_count(t) ==
    /\ pc[t] = "count"
    /\ line_count' = [line_count EXCEPT ![t] = LINE_COUNT]
    /\ LINE_COUNT' = fetch_add(LINE_COUNT, 1)
    /\ IF BelowThreshold(LINE_COUNT)
       THEN /\ Return(t)
            /\ since_reset' = IF since_reset >= 0 THEN since_reset + 1
                                                  ELSE since_reset
       ELSE /\ pc' = [pc EXCEPT ![t] = "read"]
            /\ UNCHANGED <<lockHolder, console, lines, target, max_width, width,
                           since_reset>>
    /\ UNCHANGED <<envVars, diskVars, errorFilter, MAX_MODULE_WIDTH, poisoned,
                   faults, depth, emitted, error_site, failed, rotations>>

\* fs::read_to_string(&log_file)
emit_read(t) ==
    /\ pc[t] = "read"
    /\ fileExists
    /\ lines' = [lines EXCEPT ![t] = StrLines(file)]
    /\ pc' = [pc EXCEPT ![t] = "write"]
    /\ UNCHANGED <<envVars, since_reset, diskVars, errorFilter, LINE_COUNT,
                   MAX_MODULE_WIDTH, lockHolder, poisoned, faults, console,
                   depth, emitted, error_site, failed, target, max_width, width,
                   line_count, rotations>>

emit_read_fail(t) ==
    /\ pc[t] = "read"
    /\ faults < workload.faults
    /\ faults' = faults + 1
    /\ failed' = [failed EXCEPT ![t] = TRUE]
    /\ LogErrorThen(t, "read", "return")
    /\ UNCHANGED <<envVars, since_reset, diskVars, LINE_COUNT, MAX_MODULE_WIDTH, poisoned,
                   depth, emitted, line_count, rotations>>

\* fs::write(&log_file, lines.join("\n"))
emit_write(t) ==
    /\ pc[t] = "write"
    /\ file' = Retained(lines[t], line_count[t])
    /\ fileTail' = FALSE
    /\ fileExists' = TRUE
    /\ rotations' = [rotations EXCEPT ![t] = @ + 1]
    /\ pc' = [pc EXCEPT ![t] = "reset"]
    /\ UNCHANGED <<envVars, since_reset, errorFilter, LINE_COUNT,
                   MAX_MODULE_WIDTH, lockHolder, poisoned, faults, console,
                   depth, emitted, error_site, failed, target, max_width, width,
                   line_count, lines>>

\* fs::write fails at opening the file (nothing changes) or after having
\* truncated it
emit_write_fail(t) ==
    /\ pc[t] = "write"
    /\ faults < workload.faults
    /\ faults' = faults + 1
    /\ failed' = [failed EXCEPT ![t] = TRUE]
    /\ \/ UNCHANGED <<file, fileTail>>
       \/ file' = <<>> /\ fileTail' = FALSE
    /\ LogErrorThen(t, "write", "reset")
    /\ UNCHANGED <<envVars, since_reset, fileExists, LINE_COUNT, MAX_MODULE_WIDTH, poisoned,
                   depth, emitted, line_count, rotations>>

\* a reset that leaves the counter at the rotation point
ResetValue_threshold == MAX_LINES_THRESHOLD

\* the value LINE_COUNT.store(..) writes after the rewrite
ResetValue == MAX_LINES

\* LINE_COUNT.store(MAX_LINES, Relaxed); res
emit_reset(t) ==
    /\ pc[t] = "reset"
    /\ LINE_COUNT' = ResetValue
    /\ since_reset' = 0
    /\ Return(t)
    /\ UNCHANGED <<envVars, diskVars, errorFilter, MAX_MODULE_WIDTH, poisoned,
                   faults, depth, emitted, error_site, failed, line_count, rotations>>

Next ==
    \/ init
    \/ \E t \in Threads : emit_load(t)
    \/ \E t \in Threads : nested_load(t)
    \/ \E t \in Threads : emit_width(t)
    \/ \E t \in Threads : emit_lock(t)
    \/ \E t \in Threads : emit_lock_poisoned(t)
    \/ \E t \in Threads : emit_relock(t)
    \/ \E t \in Threads : emit_open(t)
    \/ \E t \in Threads : emit_open_fail(t)
    \/ \E t \in Threads : emit_append1(t)
    \/ \E t \in Threads : emit_append2(t)
    \/ \E t \in Threads : emit_append_fail(t)
    \/ \E t \in Threads : emit_count(t)
    \/ \E t \in Threads : emit_read(t)
    \/ \E t \in Threads : emit_read_fail(t)
    \/ \E t \in Threads : emit_write(t)
    \/ \E t \in Threads : emit_write_fail(t)
    \/ \E t \in Threads : emit_reset(t)

Spec == Init /\ [][Next]_vars

SpecRace == InitRace /\ [][Next]_vars

SpecSeq == InitSeq /\ [][Next]_vars

SpecFaulty == InitFaulty /\ [][Next]_vars

\* the steps of a call to the closure when every file operation succeeds
emit_progress(t) ==
    \/ emit_width(t)
    \/ emit_lock(t)
    \/ emit_open(t)
    \/ emit_append1(t)
    \/ emit_append2(t)
    \/ emit_count(t)
    \/ emit_read(t)
    \/ emit_write(t)
    \/ emit_reset(t)

NextLive ==
    \/ init
    \/ \E t \in Threads : emit_load(t)
    \/ \E t \in Threads : emit_progress(t)

\* A thread inside the closure keeps running, and a thread waiting for the
\* Mutex gets it if the Mutex is released again and again.
Fairness ==
    \A t \in Threads : /\ WF_vars(emit_progress(t))
                        /\ SF_vars(emit_lock(t))

SpecLive == InitLive /\ [][NextLive]_vars /\ Fairness

TypeOK ==
    /\ state \in {"Uninitialized", "Ready", "InitPanicked"}
    /\ lockHolder \in 0..NumThreads
    /\ LINE_COUNT \in Nat
    /\ faults \in 0..workload.faults
    /\ \A t \in Threads : depth[t] \in 0..1

\* ============================================================== claims
\* the thread is between its lock acquisition and the end of its call
InCS(t) ==
    \/ pc[t] \in {"open", "append1", "append2", "count", "read", "write",
                  "reset", "nested", "deadlocked"}
    \/ depth[t] = 1 /\ pc[t] \in {"width", "lock"}

\* the step ends thread t's call with a normal return
Returns(t) == InCS(t) /\ pc'[t] = "idle"

\* the last n lines of a file
LastLines(f, n) == IF Len(f) <= n THEN f ELSE SubSeq(f, Len(f) - n + 1, Len(f))

\* the step is the rotation's rewrite of the file by thread t, after I/O
\* that has all succeeded
Rewrites(t) == pc[t] = "write" /\ pc'[t] = "reset" /\ faults' = 0

\* C1: whenever an emit rotates, the file right afterwards is exactly the
\* last MAX_LINES lines of the file as it stood before the rewrite, in
\* order, each followed by a line terminator; for every startup state and
\* every sequence of successful emits.
C1_RotationContent ==
    [][\A t \in Threads :
          Rewrites(t) => /\ file' = LastLines(file, MAX_LINES)
                         /\ Len(file') = MAX_LINES
                         /\ ~fileTail']_vars

C6_CounterIsLineCount ==
    (state = "Ready" /\ faults = 0 /\ \A t \in Threads : ~InCS(t))
    => LINE_COUNT = CountLines(file)

\* C7: when init completes, LINE_COUNT is the number of lines the log file
\* had plus one if the file was read, and 1 if it was absent or unreadable.
C7_SeededCount ==
    [][(state = "Uninitialized" /\ state' = "Ready")
       => LINE_COUNT' = (IF seeded' = "counted" THEN CountLines(file) + 1
                                                ELSE 1)]_vars

\* C3: an emit whose open of the log file fails still returns to its
\* caller with its console line printed: it neither blocks forever nor
\* panics, and the mutex is left usable for later emits.
C3_OpenFailureIsAbsorbed ==
    \A t \in Threads :
        error_site[t] = "open"
        => /\ pc[t] \notin {"deadlocked", "panicked"}
           /\ ~poisoned
           /\ pc[t] = "idle" => /\ lockHolder # t
                                /\ \E i \in 1..Len(console) :
                                      /\ console[i].thread = t
                                      /\ console[i].k = emitted[t]

\* the records whose append has completed
Appended ==
    {r \in Threads \X (1..MaxRecords) :
        /\ r[2] <= emitted[r[1]]
        /\ r[2] = emitted[r[1]]
           => pc[r[1]] \in {"count", "read", "write", "reset", "idle"}}

\* the lines of the file after the session header
AfterHeader(f) ==
    LET h == CHOOSE i \in 1..Len(f) : f[i] = HeaderLine
    IN  SubSeq(f, h + 1, Len(f))

\* C4: with I/O succeeding, under every interleaving the file gains one
\* whole line per emitted record, none torn, lost or duplicated; a rotation
\* that happens on the way leaves the last MAX_LINES lines.
C4_NoRotationYet ==
    (faults = 0 /\ state = "Ready" /\ \E i \in 1..Len(file) : file[i] = HeaderLine
       /\ \A t \in Threads : pc[t] \notin {"append1", "append2"})
    => LET new == AfterHeader(file)
       IN  /\ ~fileTail
           /\ \A i \in 1..Len(new) :
                 \E r \in Appended : new[i] = RecordLine(r[1], r[2])
           /\ \A r \in Appended :
                 \E i \in 1..Len(new) : new[i] = RecordLine(r[1], r[2])
           /\ Len(new) = Cardinality(Appended)

C4_ConcurrentAppend ==
    /\ []C4_NoRotationYet
    /\ [][\A t \in Threads :
             Rewrites(t) => /\ file' = LastLines(lines[t], MAX_LINES)
                            /\ Len(file') = MAX_LINES]_vars

\* C5: no two threads are inside the critical section at once, and after
\* init the file and the counter change only in a step of the thread that
\* holds the lock and is inside the critical section.
C5_Exclusive ==
    \A t1, t2 \in Threads : (InCS(t1) /\ InCS(t2)) => t1 = t2

C5_OnlyHolderWrites ==
    (<<fileExists, file, fileTail, LINE_COUNT>>'
        # <<fileExists, file, fileTail, LINE_COUNT>>)
    => \/ state = "Uninitialized"
       \/ \E t \in Threads :
             /\ lockHolder = t
             /\ InCS(t)
             /\ pc'[t] # pc[t]
             /\ \A u \in Threads \ {t} : pc'[u] = pc[u] /\ ~InCS(u)

C5_CriticalSection == []C5_Exclusive /\ [][C5_OnlyHolderWrites]_vars

\* one thread is in the middle of its append while another waits for the lock
C5_Witness ==
    \E t1, t2 \in Threads :
        /\ t1 # t2
        /\ pc[t1] = "append2" /\ lockHolder = t1 /\ fileTail
        /\ pc[t2] = "lock"

\* the emit of thread t has started a rotation
Rotating(t) ==
    \/ pc[t] \in {"read", "write", "reset"}
    \/ error_site[t] \in {"read", "write"} /\ pc[t] \in {"nested", "width", "lock"}

\* C8: an emit whose rotation fails, at the read or at the rewrite, ends
\* with the counter reset to MAX_LINES.
C8_ResetOnFailedRotation ==
    [][\A t \in Threads :
          (Rotating(t) /\ pc'[t] \in {"idle", "panicked", "deadlocked"})
          => LINE_COUNT' = MAX_LINES]_vars

\* C9: the shared maximum width never decreases, under every interleaving.
C9_WidthMonotone == [][MAX_MODULE_WIDTH' >= MAX_MODULE_WIDTH]_vars

\* the first two records printed have the targets "a" and "ab"
FirstTwoAreAandAB ==
    /\ faults = 0
    /\ Len(console) >= 2
    /\ {console[1].target, console[2].target} = {1, 2}

\* from the third record on, once it has the target "abc", 3 columns
ThirdWidens ==
    (Len(console) >= 3 /\ console[3].target = 3)
    => \A i \in 3..Len(console) : console[i].columns = 3

\* console output is only ever added at the end
ConsoleGrows ==
    \/ console' = console
    \/ /\ Len(console') = Len(console) + 1
       /\ SubSeq(console', 1, Len(console)) = console

\* C10 as stated: from a fresh alignment state, "a" and "ab" emitted one
\* after the other, in either order, are both rendered 2 columns wide; a
\* third record "abc" is rendered 3 columns wide, as are all later ones;
\* what was printed before stays as it is.
C10_BothTwoColumns ==
    /\ [](FirstTwoAreAandAB
          => /\ console[1].columns = 2
             /\ console[2].columns = 2
             /\ ThirdWidens)
    /\ [][ConsoleGrows]_vars

\* the longest target among the first i records printed
RECURSIVE WidestUpTo(_)
WidestUpTo(i) ==
    IF i = 0 THEN 0
    ELSE IF console[i].target > WidestUpTo(i - 1) THEN console[i].target
         ELSE WidestUpTo(i - 1)

\* C10 amended: "ab" then "a" are both rendered 2 columns wide; "a" then
\* "ab" are rendered 1 and 2 columns wide; a third record "abc" is rendered
\* 3 columns wide, and every later record as wide as the longest target
\* emitted up to it, so at least 3; what was printed before stays as it is.
C10_WidestSoFar ==
    /\ [](FirstTwoAreAandAB
          => /\ console[1].columns = console[1].target
             /\ console[2].columns = 2
             /\ (Len(console) >= 3 /\ console[3].target = 3)
                => \A i \in 3..Len(console) :
                      /\ console[i].columns >= 3
                      /\ console[i].columns = WidestUpTo(i))
    /\ [][ConsoleGrows]_vars

\* "ab", "a", "abc", "a" printed in 2, 2, 3, 3 columns
C10_Witness ==
    /\ faults = 0
    /\ Len(console) = 4
    /\ [i \in 1..4 |-> console[i].target] = <<2, 1, 3, 1>>
    /\ [i \in 1..4 |-> console[i].columns] = <<2, 2, 3, 3>>

\* ---------------------------------------------------------------- C11
\* thread t has made the first call to the closure and it has returned
\* without an I/O failure, after an init() that read the log file
FirstEmitDone(t) ==
    /\ state = "Ready"
    /\ seeded = "counted"
    /\ faults = 0
    /\ Emitted = 1
    /\ emitted[t] = 1
    /\ pc[t] = "idle"

\* C11: given an existing log file with L lines, after init() and one record
\* whose counter value is below the threshold, the file holds the L old
\* lines unchanged, then one session header, then the record: L + 2 lines.
C11_HeaderThenRecord ==
    \A t \in Threads :
        (FirstEmitDone(t) /\ line_count[t] < MAX_LINES_THRESHOLD)
        => LET L == line_count[t] - 1
           IN  /\ L >= 0
               /\ Len(file) = L + 2
               /\ file = OldFile(L) \o <<HeaderLine, RecordLine(t, 1)>>

C11_Witness ==
    \E t \in Threads :
        /\ FirstEmitDone(t)
        /\ line_count[t] < MAX_LINES_THRESHOLD
        /\ file = <<OldLine(1), HeaderLine, RecordLine(t, 1)>>

\* ---------------------------------------------------------------- C12
\* the lines of the calls that have returned, in the order they returned
ReturnedRecords ==
    [i \in 1..Len(console) |-> RecordLine(console[i].thread, console[i].k)]

\* no call is between its lock acquisition and its return
Quiescent == \A t \in Threads : ~InCS(t)

\* no I/O has failed and no call has reached the rotation branch yet
NoRotationTriggered ==
    /\ state = "Ready"
    /\ faults = 0
    /\ since_reset = -1
    /\ Quiescent

\* after N calls the file is the file init() left plus the N records, and
\* the counter is the value init() left plus N
GrownByN ==
    LET N == Len(console)
    IN  IF seeded = "counted"
        THEN LET L == LINE_COUNT - N - 1
             IN  /\ L >= 0
                 /\ file = (OldFile(L) \o <<HeaderLine>>) \o ReturnedRecords
        ELSE /\ LINE_COUNT = N
             /\ file = <<HeaderLine>> \o ReturnedRecords

\* one call that succeeds and does not rotate: its two writes add one line
\* after the lines already there, and its fetch_add adds one to the counter
AddsOneLine(t) ==
    /\ (pc[t] = "append1" /\ pc'[t] = "append2" /\ faults = 0)
       => (file' = Append(file, <<HeadChunk(t, emitted[t])>>)
           /\ LINE_COUNT' = LINE_COUNT)
    /\ (pc[t] = "append2" /\ pc'[t] = "count" /\ faults' = 0)
       => (file' = [file EXCEPT ![Len(file)] = RecordLine(t, emitted[t])]
           /\ LINE_COUNT' = LINE_COUNT)
    /\ (pc[t] = "count" /\ pc'[t] = "idle" /\ faults = 0)
       => (file' = file /\ LINE_COUNT' = LINE_COUNT + 1)

\* C12: over every sequence of N calls none of which triggers a rotation, the
\* file gains N lines after its earlier lines, which stay unchanged, and the
\* line counter grows by exactly N, one per record.
C12_AppendOnly ==
    /\ [](NoRotationTriggered => GrownByN)
    /\ [][\A t \in Threads : AddsOneLine(t)]_vars

C12_Witness ==
    /\ NoRotationTriggered
    /\ seeded = "absent"
    /\ Len(console) = MAX_LINES_THRESHOLD
    /\ LINE_COUNT = MAX_LINES_THRESHOLD
    /\ Len(file) = MAX_LINES_THRESHOLD + 1
    /\ \A t \in Threads : emitted[t] >= 1

\* ---------------------------------------------------------------- C13
\* nothing has gone through the logger
NothingLogged ==
    /\ console = <<>>
    /\ Emitted = 0
    /\ lockHolder = 0
    /\ \A t \in Threads : pc[t] = "idle"

\* C13: if the log file cannot be opened or created during init(), init()
\* panics: the logger is never installed, the program never gets to Ready,
\* no record is ever processed, and there is no mode that logs to the
\* console alone (Ready is entered only with the file opened).
C13_InitAborts ==
    /\ [](state = "InitPanicked" => NothingLogged)
    /\ [][state # "InitPanicked"]_vars
    /\ [][(state = "Uninitialized" /\ state' = "Ready") => fileExists']_vars

C13_Witness ==
    /\ state = "InitPanicked"
    /\ faults = 1
    /\ ~fileExists

\* ---------------------------------------------------------------- C14
\* C14: the log file is bounded: whatever init() found, and with every file
\* operation succeeding, a call whose append leaves more than THRESHOLD lines
\* rewrites the file before it returns, so whenever at least one call has
\* been made and none is in progress the file holds at most THRESHOLD lines.
C14_FileBounded ==
    (state = "Ready" /\ faults = 0 /\ Quiescent /\ Len(console) >= 1)
    => Len(file) <= MAX_LINES_THRESHOLD

\* ---------------------------------------------------------------- C15
\* the step of call t that reads the counter and decides
Decides(t) == pc[t] = "count" /\ pc'[t] # "count"

\* the step keeps every terminated line of the file where it is, and only
\* adds to an unterminated last line
ExtendsFile ==
    LET n == Len(file)
        c == IF fileTail /\ n > 0 THEN n - 1 ELSE n
    IN  /\ Len(file') >= n
        /\ SubSeq(file', 1, c) = SubSeq(file, 1, c)
        /\ c < n => SubSeq(file'[n], 1, Len(file[n])) = file[n]

RotatesIffAtThreshold(t) ==
    /\ Decides(t) => (pc'[t] = "read" <=> LINE_COUNT >= MAX_LINES_THRESHOLD)
    /\ (Decides(t) /\ LINE_COUNT < MAX_LINES_THRESHOLD)
       => (pc'[t] = "idle" /\ LINE_COUNT' = LINE_COUNT + 1 /\ file' = file)
    /\ (pc[t] = "reset" /\ pc'[t] = "idle") => LINE_COUNT' = MAX_LINES

\* C15: a call takes the rotation branch if and only if the counter value it
\* read before its own increment is >= THRESHOLD; below it the call only adds
\* one to the counter, and no step of such a call changes the lines already
\* in the file; a call that has rewritten the file leaves the counter at
\* CAPACITY, however many lines the rewritten file has.
C15_RotationDecision ==
    /\ [][\A t \in Threads : RotatesIffAtThreshold(t)]_vars
    /\ [](\A t \in Threads : pc[t] \in {"read", "write", "reset"}
                             => line_count[t] >= MAX_LINES_THRESHOLD)
    /\ [][ExtendsFile \/ \E t \in Threads :
                            /\ pc[t] = "write"
                            /\ line_count[t] >= MAX_LINES_THRESHOLD]_vars

\* a rotation has left the counter at CAPACITY and more lines in the file
C15_Witness ==
    /\ state = "Ready"
    /\ faults = 0
    /\ Quiescent
    /\ since_reset = 0
    /\ LINE_COUNT = MAX_LINES
    /\ Len(file) = MAX_LINES + 1

\* ---------------------------------------------------------------- C16
\* C16: when the append of a call fails (the file opened, the line was not
\* written), the call returns without further action: it leaves the line
\* counter as it is and does not take the rotation branch.
C16_FailedAppendReturns ==
    [][\A t \in Threads :
          (pc[t] = "count" /\ failed[t])
          => (LINE_COUNT' = LINE_COUNT /\ pc'[t] = "idle")]_vars

\* ---------------------------------------------------------------- C17
\* C17: reporting an internal I/O error (open failure, rotation read or write
\* failure) never re-enters the file-logging path: no thread runs the format
\* closure again, and so none asks for the Mutex or opens the log file,
\* while that same thread holds the Mutex.
C17_NoReentry ==
    \A t \in Threads :
        lockHolder = t => (depth[t] = 0 /\ pc[t] # "lock")

\* ---------------------------------------------------------------- C18
\* a is the last Len(a) elements of b, in b's order
IsSuffix(a, b) ==
    /\ Len(a) <= Len(b)
    /\ a = SubSeq(b, Len(b) - Len(a) + 1, Len(b))

\* fs::write of call t succeeds, after an append of t that succeeded
RewritesAfterAppend(t) ==
    /\ pc[t] = "write"
    /\ rotations'[t] = rotations[t] + 1
    /\ ~failed[t]

\* C18: a rotation never loses the most recent entries: whatever the value
\* of the counter relative to the real length of the file (after ignored
\* write failures, or an unreadable file at init), the rewritten file is a
\* suffix of the lines read just before, in the same order, and its last
\* line ends with the record appended by the call that rotates.
C18_KeepsRecent ==
    [][\A t \in Threads :
          RewritesAfterAppend(t)
          => /\ IsSuffix(file', lines[t])
             /\ Len(file') >= 1
             /\ IsSuffix(RecordLine(t, emitted[t]), file'[Len(file')])]_vars

\* ---------------------------------------------------------------- C19
\* call t takes the rotation branch
TriggersRotation(t) == pc[t] = "count" /\ pc'[t] = "read"

\* C19: rotations cannot happen back to back: once a call has rewritten the
\* file and reset the counter to CAPACITY, at least THRESHOLD - CAPACITY
\* further calls pass the threshold check without rotating before a call
\* takes the rotation branch again, under every interleaving of the callers.
C19_RotationsApart ==
    [][\A t \in Threads :
          (TriggersRotation(t) /\ since_reset >= 0)
          => since_reset >= MAX_LINES_THRESHOLD - MAX_LINES]_vars

\* a second rotation starts, after the calls in between returned early
C19_Witness ==
    \E t \in Threads :
        /\ pc[t] = "read"
        /\ since_reset = MAX_LINES_THRESHOLD - MAX_LINES
        /\ line_count[t] = MAX_LINES_THRESHOLD
        /\ \E u \in Threads : u # t /\ emitted[u] >= 1

\* ---------------------------------------------------------------- C20
\* call t holds the Mutex and has written its record at the end of the file
HasAppended(t) ==
    /\ pc[t] = "count"
    /\ lockHolder = t
    /\ Len(file) >= 1
    /\ file[Len(file)] = RecordLine(t, emitted[t])

\* C20: when all file I/O succeeds the closure is free of deadlock and
\* releases the Mutex on every return path (the early return below the
\* threshold and the return after a rotation): under fair scheduling every
\* thread that calls it eventually gets the Mutex, appends its record and
\* returns, whatever the number of concurrent callers.
C20_EveryEmitReturns ==
    /\ \A t \in Threads : (pc[t] \in {"width", "lock"}) ~> HasAppended(t)
    /\ \A t \in Threads : (pc[t] # "idle") ~> (pc[t] = "idle" /\ lockHolder # t)
    /\ [][\A t \in Threads : (pc[t] # "idle" /\ pc'[t] = "idle")
                             => lockHolder' = 0]_vars

\* every record has been logged, by more than one thread, one of the calls
\* having rotated the file, and the Mutex is free
C20_Witness ==
    /\ Emitted = workload.records
    /\ workload.faults = 0
    /\ \A t \in Threads : pc[t] = "idle" /\ emitted[t] >= 1
    /\ since_reset >= 0
    /\ lockHolder = 0
=============================================================================
